---- MODULE Spec2Model ----
(***************************************************************************)
(* Organix: role-scoped case lifecycle, funding ledger and approval flags. *)
(* The Express backend talks to Postgres through the service-role client   *)
(* (row level security is bypassed), so the handlers below are the only    *)
(* authorization the backend applies.  Tables are partial functions keyed  *)
(* by primary key; tables without a natural key are bags of rows.          *)
(***************************************************************************)
EXTENDS Bags, FiniteSets, Integers, Sequences, TLC

\* ---------------------------------------------------------------- bounds
MaxAmount == 2
MaxContrib == 2
MaxAudit == 1
MaxContacts == 1
NumReqs == 2

\* ------------------------------------------------------------- universes
Patients == {"p1", "p2"}
Donors == {"d1"}
Hospitals == {"h1", "h2", "h3"}
Sponsors == {"s1", "s2"}
Admins == {"a1"}
UserIds == Patients \cup Donors \cup Hospitals \cup Sponsors \cup Admins
CaseIds == {"c1"}
ReqIds == 1..NumReqs

Null == "null"
Undef == "undefined"
UndefNum == 0 - 1

Roles == {"patient", "donor", "hospital", "sponsor", "admin"}
Statuses == {"waiting", "matched", "funded", "transplanted"}

\* the role a fresh account id signs up with
RoleFor(u) ==
  IF u \in Patients THEN "patient"
  ELSE IF u \in Donors THEN "donor"
  ELSE IF u \in Hospitals THEN "hospital"
  ELSE IF u \in Sponsors THEN "sponsor"
  ELSE "admin"

NameOf(u) == "name_" \o u

\* position of a status in the lifecycle order
StatusRank(s) ==
  CASE s = "waiting" -> 0
    [] s = "matched" -> 1
    [] s = "funded" -> 2
    [] s = "transplanted" -> 3

VARIABLES users, patients, donors, hospitals, sponsors, cases, case_sponsors,
          audit_logs, reqs, approvals, approveCalls, resp, kv,
          donor_medical_info, donor_organs, emergency_contacts, regs

storeVars == <<users, patients, donors, hospitals, sponsors, cases, case_sponsors, audit_logs>>
\* the donor registration tables (part_013) and the registrations under way
donorVars == <<donor_medical_info, donor_organs, emergency_contacts, regs>>
vars == <<users, patients, donors, hospitals, sponsors, cases, case_sponsors,
          audit_logs, reqs, approvals, approveCalls, resp, kv,
          donor_medical_info, donor_organs, emergency_contacts, regs>>

\* ---------------------------------------------------------------- helpers
IdleReq == [pc |-> "idle", sponsor |-> Null, case |-> Null, amount |-> 0]
NoResp == [op |-> "none", actor |-> Null, case |-> Null, code |-> 0, body |-> {}]
Response(op, actor, c, code, body) ==
  [op |-> op, actor |-> actor, case |-> c, code |-> code, body |-> body]

EmptyKv == [users |-> <<>>, hospitals |-> <<>>, sponsors |-> <<>>, patients |-> <<>>,
            donors |-> <<>>, cases |-> <<>>, audit |-> EmptyBag]

RECURSIVE SumAmounts(_, _)
SumAmounts(S, b) ==
  IF S = {} THEN 0
  ELSE LET x == CHOOSE y \in S : TRUE
       IN x.amount * CopiesIn(x, b) + SumAmounts(S \ {x}, b)

\* total of the case_sponsors rows of case c
LedgerTotal(c) == SumAmounts({x \in BagToSet(case_sponsors) : x.case_id = c}, case_sponsors)

\* the previous response has left the server
Ready == resp = NoResp

InFlight == {r \in ReqIds : reqs[r].pc # "idle"}

\* auditService.logEvent: the insert result is ignored, a failure is swallowed
AuditEntry(userId, action, role, caseId, targetUserId, amount) ==
  [user_id |-> userId, action |-> action, role |-> role, case_id |-> caseId,
   target_user_id |-> targetUserId, amount |-> amount]
logEvent(entry, ok) ==
  /\ ok => BagCardinality(audit_logs) < MaxAudit
  /\ audit_logs' = IF ok THEN audit_logs (+) SetToBag({entry}) ELSE audit_logs

\* ------------------------------------------------- SQL schema (part_012)
\* variant of the table defaults in which a new case starts as matched
NewCaseRowMatched(patientId, organNeeded, urgencyLevel) ==
  [patient_id |-> patientId, organ_needed |-> organNeeded, urgency_level |-> urgencyLevel,
   status |-> "matched", assigned_hospital_id |-> Null, matched_donor_id |-> Null,
   funding_goal |-> 0, funding_amount |-> 0]
\* INSERT INTO cases: the columns caseService.createCase gives and the defaults
NewCaseRow(patientId, organNeeded, urgencyLevel) ==
  [patient_id |-> patientId, organ_needed |-> organNeeded, urgency_level |-> urgencyLevel,
   status |-> "waiting", assigned_hospital_id |-> Null, matched_donor_id |-> Null,
   funding_goal |-> 0, funding_amount |-> 0]

\* variant of the trigger that stores the new amount instead of adding it
update_case_funding_overwrite(tbl, new) ==
  [tbl EXCEPT ![new.case_id] =
     [@ EXCEPT !.funding_amount = new.amount,
               !.status = IF /\ new.amount >= tbl[new.case_id].funding_goal
                             /\ tbl[new.case_id].funding_goal > 0
                          THEN "funded" ELSE @]]
\* variant of the trigger without the funding_goal > 0 test
update_case_funding_nogoalcheck(tbl, new) ==
  [tbl EXCEPT ![new.case_id] =
     [@ EXCEPT !.funding_amount = @ + new.amount,
               !.status = IF tbl[new.case_id].funding_amount + new.amount >= tbl[new.case_id].funding_goal
                          THEN "funded" ELSE @]]
\* AFTER INSERT trigger on case_sponsors: the new cases table
update_case_funding(tbl, new) ==
  [tbl EXCEPT ![new.case_id] =
     [@ EXCEPT !.funding_amount = @ + new.amount,
               !.status = IF /\ tbl[new.case_id].funding_amount + new.amount >= tbl[new.case_id].funding_goal
                             /\ tbl[new.case_id].funding_goal > 0
                          THEN "funded" ELSE @]]

\* the same trigger's second statement: the new sponsors table
update_sponsor_stats(tbl, new) ==
  IF new.sponsor_id \in DOMAIN tbl
  THEN [tbl EXCEPT ![new.sponsor_id] =
          [@ EXCEPT !.total_funded = @ + new.amount, !.funded_count = @ + 1]]
  ELSE tbl

\* policy "Hospitals can update cases" (bypassed by the service-role client)
HospitalsCanUpdateCases(h, row) ==
  /\ h \in DOMAIN users
  /\ h \in DOMAIN hospitals
  /\ hospitals[h].approved
  /\ row.assigned_hospital_id \in {Null, h}

\* ------------------------------------------------------------ caseService
checkApproval(userId, tbl) ==
  IF userId \in DOMAIN tbl THEN tbl[userId].approved ELSE FALSE

formatCase(id, row, patientName, ledger) ==
  [id |-> id,
   patientId |-> row.patient_id,
   patientName |-> IF patientName = Null THEN "Anonymous" ELSE patientName,
   organNeeded |-> row.organ_needed,
   urgencyLevel |-> row.urgency_level,
   status |-> row.status,
   matchedDonorId |-> row.matched_donor_id,
   assignedHospitalId |-> row.assigned_hospital_id,
   fundingAmount |-> row.funding_amount,
   fundingGoal |-> row.funding_goal,
   sponsors |-> {[sponsor_id |-> x.sponsor_id, amount |-> x.amount, n |-> CopiesIn(x, ledger)] :
                    x \in {y \in BagToSet(ledger) : y.case_id = id}}]

\* rows of tbl the role filter of getCasesByRole keeps
CaseFilter(userId, role, tbl) ==
  IF role = "patient" THEN {c \in DOMAIN tbl : tbl[c].patient_id = userId}
  ELSE IF role = "hospital"
       THEN {c \in DOMAIN tbl : tbl[c].assigned_hospital_id \in {Null, userId}}
  ELSE DOMAIN tbl

getCasesByRole(userId, role, tbl) ==
  {formatCase(c, tbl[c],
              IF tbl[c].patient_id \in DOMAIN users THEN users[tbl[c].patient_id].name ELSE Null,
              case_sponsors) : c \in CaseFilter(userId, role, tbl)}

\* caseController.getCases: the response body for a permitted read of tbl
getCasesBody(userId, role, tbl) ==
  IF role \in {"donor", "sponsor"}
  THEN {[v EXCEPT !.patientName = "Anonymous Patient"] : v \in getCasesByRole(userId, role, tbl)}
  ELSE getCasesByRole(userId, role, tbl)

\* variant of the approval gate that checks hospitals only
GetCasesAllowedHospitalOnly(u) ==
  users[u].role = "hospital" => checkApproval(u, hospitals)
\* getCasesByRole's approval gate: the role table's flag, for hospitals and sponsors
GetCasesAllowed(u) ==
  LET role == users[u].role
  IN /\ role = "hospital" => checkApproval(u, hospitals)
     /\ role = "sponsor" => checkApproval(u, sponsors)

\* GET /cases
GetCases(u) ==
  /\ Ready
  /\ u \in DOMAIN users
  /\ resp' = IF GetCasesAllowed(u)
             THEN Response("getCases", u, Null, 200, getCasesBody(u, users[u].role, cases))
             ELSE Response("getCases", u, Null, 403, {})
  /\ UNCHANGED <<storeVars, reqs, approvals, approveCalls, kv, donorVars>>

\* variant of the handler in which a failed audit insert fails the request
CreateCaseAuditFatal(u, c, organNeeded, urgencyLevel, ok) ==
  /\ Ready
  /\ u \in DOMAIN users
  /\ c \in CaseIds \ DOMAIN cases
  /\ IF users[u].role # "patient"
     THEN /\ resp' = Response("createCase", u, Null, 403, {})
          /\ UNCHANGED storeVars
     ELSE IF organNeeded = Undef \/ urgencyLevel = Undef
     THEN /\ resp' = Response("createCase", u, Null, 400, {})
          /\ UNCHANGED storeVars
     ELSE IF ~ok
     THEN /\ resp' = Response("createCase", u, Null, 500, {})
          /\ UNCHANGED storeVars
     ELSE /\ cases' = [x \in DOMAIN cases \cup {c} |->
                         IF x = c THEN NewCaseRow(u, organNeeded, urgencyLevel) ELSE cases[x]]
          /\ logEvent(AuditEntry(u, "CASE_CREATED", Null, c, Null, 0), ok)
          /\ resp' = Response("createCase", u, c, 200,
                              {formatCase(c, NewCaseRow(u, organNeeded, urgencyLevel), users[u].name, EmptyBag)})
          /\ UNCHANGED <<users, patients, donors, hospitals, sponsors, case_sponsors>>
  /\ UNCHANGED <<reqs, approvals, approveCalls, kv, donorVars>>

\* variant of the handler without the required-fields test
CreateCaseUnvalidated(u, c, organNeeded, urgencyLevel, ok) ==
  /\ Ready
  /\ u \in DOMAIN users
  /\ c \in CaseIds \ DOMAIN cases
  /\ IF users[u].role # "patient"
     THEN /\ resp' = Response("createCase", u, Null, 403, {})
          /\ UNCHANGED storeVars
     ELSE /\ cases' = [x \in DOMAIN cases \cup {c} |->
                         IF x = c THEN NewCaseRow(u, organNeeded, urgencyLevel) ELSE cases[x]]
          /\ logEvent(AuditEntry(u, "CASE_CREATED", Null, c, Null, 0), ok)
          /\ resp' = Response("createCase", u, c, 200,
                              {formatCase(c, NewCaseRow(u, organNeeded, urgencyLevel), users[u].name, EmptyBag)})
          /\ UNCHANGED <<users, patients, donors, hospitals, sponsors, case_sponsors>>
  /\ UNCHANGED <<reqs, approvals, approveCalls, kv, donorVars>>

\* POST /cases
CreateCase(u, c, organNeeded, urgencyLevel, ok) ==
  /\ Ready
  /\ u \in DOMAIN users
  /\ c \in CaseIds \ DOMAIN cases
  /\ IF users[u].role # "patient"
     THEN /\ resp' = Response("createCase", u, Null, 403, {})
          /\ UNCHANGED storeVars
     ELSE IF organNeeded = Undef \/ urgencyLevel = Undef
     THEN /\ resp' = Response("createCase", u, Null, 400, {})
          /\ UNCHANGED storeVars
     ELSE /\ cases' = [x \in DOMAIN cases \cup {c} |->
                         IF x = c THEN NewCaseRow(u, organNeeded, urgencyLevel) ELSE cases[x]]
          /\ logEvent(AuditEntry(u, "CASE_CREATED", Null, c, Null, 0), ok)
          /\ resp' = Response("createCase", u, c, 200,
                              {formatCase(c, NewCaseRow(u, organNeeded, urgencyLevel), users[u].name, EmptyBag)})
          /\ UNCHANGED <<users, patients, donors, hospitals, sponsors, case_sponsors>>
  /\ UNCHANGED <<reqs, approvals, approveCalls, kv, donorVars>>

\* ------------------------------------------------- caseController.updateCase
NoUpdates == [status |-> Undef, assigned_hospital_id |-> Undef,
              matched_donor_id |-> Undef, funding_goal |-> UndefNum]

\* the updates object the controller builds from the request body
ParseUpdates(role, body) ==
  IF role = "hospital"
  THEN [status |-> IF body.status # Undef THEN body.status
                   ELSE IF body.matchedDonorId # Undef THEN "matched" ELSE Undef,
        assigned_hospital_id |-> body.assignedHospitalId,
        matched_donor_id |-> body.matchedDonorId,
        funding_goal |-> UndefNum]
  ELSE [status |-> body.status,
        assigned_hospital_id |-> body.assignedHospitalId,
        matched_donor_id |-> body.matchedDonorId,
        funding_goal |-> body.fundingGoal]

\* variant of the update that takes status funded only when the goal is reached
ApplyUpdatesFundedChecked(row, up) ==
  [row EXCEPT !.status = IF /\ up.status # Undef
                            /\ up.status = "funded"
                               => (row.funding_goal > 0 /\ row.funding_amount >= row.funding_goal)
                         THEN up.status ELSE @,
              !.assigned_hospital_id = IF up.assigned_hospital_id # Undef THEN up.assigned_hospital_id ELSE @,
              !.matched_donor_id = IF up.matched_donor_id # Undef THEN up.matched_donor_id ELSE @,
              !.funding_goal = IF up.funding_goal # UndefNum THEN up.funding_goal ELSE @]

\* UPDATE cases SET <updates> on one row
ApplyUpdates(row, up) ==
  [row EXCEPT !.status = IF up.status # Undef THEN up.status ELSE @,
              !.assigned_hospital_id = IF up.assigned_hospital_id # Undef THEN up.assigned_hospital_id ELSE @,
              !.matched_donor_id = IF up.matched_donor_id # Undef THEN up.matched_donor_id ELSE @,
              !.funding_goal = IF up.funding_goal # UndefNum THEN up.funding_goal ELSE @]

\* foreign keys of cases reference users(id)
UpdatesValid(up) ==
  /\ up.assigned_hospital_id \in {Undef, Null} \cup DOMAIN users
  /\ up.matched_donor_id \in {Undef, Null} \cup DOMAIN users

\* variant of the handler without the role test
UpdateCaseAnyRole(u, c, body, ok) ==
  /\ Ready
  /\ u \in DOMAIN users
  /\ LET up == ParseUpdates(users[u].role, body)
     IN IF c \notin DOMAIN cases \/ ~UpdatesValid(up)
        THEN /\ resp' = Response("updateCase", u, c, 500, {})
             /\ UNCHANGED storeVars
        ELSE /\ up # NoUpdates
             /\ cases' = [cases EXCEPT ![c] = ApplyUpdates(@, up)]
             /\ logEvent(AuditEntry(u, "CASE_UPDATED", Null, c, Null, 0), ok)
             /\ resp' = Response("updateCase", u, c, 200, {})
             /\ UNCHANGED <<users, patients, donors, hospitals, sponsors, case_sponsors>>
  /\ UNCHANGED <<reqs, approvals, approveCalls, kv, donorVars>>

\* PUT /cases/:caseId (a body with no recognised field is not modelled)
UpdateCase(u, c, body, ok) ==
  /\ Ready
  /\ u \in DOMAIN users
  /\ IF users[u].role \notin {"hospital", "admin"}
     THEN /\ resp' = Response("updateCase", u, c, 403, {})
          /\ UNCHANGED storeVars
     ELSE LET up == ParseUpdates(users[u].role, body)
          IN IF c \notin DOMAIN cases \/ ~UpdatesValid(up)
             THEN /\ resp' = Response("updateCase", u, c, 500, {})
                  /\ UNCHANGED storeVars
             ELSE /\ up # NoUpdates
                  /\ cases' = [cases EXCEPT ![c] = ApplyUpdates(@, up)]
                  /\ logEvent(AuditEntry(u, "CASE_UPDATED", Null, c, Null, 0), ok)
                  /\ resp' = Response("updateCase", u, c, 200, {})
                  /\ UNCHANGED <<users, patients, donors, hospitals, sponsors, case_sponsors>>
  /\ UNCHANGED <<reqs, approvals, approveCalls, kv, donorVars>>

\* ------------------------------------------- sponsorController.fundCase
\* role, approval and body checks, then sponsorService.fundCase's case lookup
FundBegin(r, u, c, amount) ==
  /\ Ready
  /\ reqs[r].pc = "idle"
  /\ u \in DOMAIN users
  /\ IF users[u].role # "sponsor" \/ ~checkApproval(u, sponsors)
     THEN /\ resp' = Response("fundCase", u, c, 403, {})
          /\ UNCHANGED reqs
     ELSE IF c = Undef \/ amount <= 0
     THEN /\ resp' = Response("fundCase", u, c, 400, {})
          /\ UNCHANGED reqs
     ELSE IF c \notin DOMAIN cases
     THEN /\ resp' = Response("fundCase", u, c, 500, {})
          /\ UNCHANGED reqs
     ELSE /\ BagCardinality(case_sponsors) + Cardinality(InFlight) < MaxContrib
          /\ reqs' = [reqs EXCEPT ![r] = [pc |-> "insert", sponsor |-> u, case |-> c, amount |-> amount]]
          /\ UNCHANGED resp
  /\ UNCHANGED <<storeVars, approvals, approveCalls, kv, donorVars>>

\* INSERT INTO case_sponsors, with its AFTER INSERT trigger in the same statement
FundInsert(r) ==
  /\ Ready
  /\ reqs[r].pc = "insert"
  /\ LET new == [case_id |-> reqs[r].case, sponsor_id |-> reqs[r].sponsor, amount |-> reqs[r].amount]
     IN /\ case_sponsors' = case_sponsors (+) SetToBag({new})
        /\ cases' = update_case_funding(cases, new)
        /\ sponsors' = update_sponsor_stats(sponsors, new)
  /\ reqs' = [reqs EXCEPT ![r].pc = "reread"]
  /\ UNCHANGED <<users, patients, donors, hospitals, audit_logs, approvals, approveCalls, resp, kv, donorVars>>

\* the second case read, the audit entry and the response
FundFinish(r, ok) ==
  /\ Ready
  /\ reqs[r].pc = "reread"
  /\ LET c == reqs[r].case
     IN /\ logEvent(AuditEntry(reqs[r].sponsor, "CASE_FUNDED", Null, c, Null, reqs[r].amount), ok)
        /\ resp' = Response("fundCase", reqs[r].sponsor, c, 200,
                            {[funding_amount |-> cases[c].funding_amount,
                              funding_goal |-> cases[c].funding_goal,
                              status |-> cases[c].status,
                              amount |-> reqs[r].amount]})
  /\ reqs' = [reqs EXCEPT ![r] = IdleReq]
  /\ UNCHANGED <<users, patients, donors, hospitals, sponsors, cases, case_sponsors, approvals, approveCalls, kv, donorVars>>

\* ------------------------------------------------------------ authService
\* variant that approves every signed-up role
InitialApprovalAll(role) == role # "admin"
\* const approved = role === 'patient' || role === 'donor'
InitialApproval(role) == role \in {"patient", "donor"}

NewDonorRow == [donor_type |-> Null, consent_given |-> FALSE, consent_date |-> Null,
                can_withdraw |-> TRUE]
NewSponsorRow == [approved |-> FALSE, total_funded |-> 0, funded_count |-> 0]
NewHospitalRow == [approved |-> FALSE]

AddRow(tbl, k, row) == [x \in DOMAIN tbl \cup {k} |-> IF x = k THEN row ELSE tbl[x]]

\* POST /auth/signup: auth user, users row, role profile row, audit entry
SignUp(u, ok) ==
  /\ Ready
  /\ u \in UserIds
  /\ IF u \in DOMAIN users
     THEN /\ resp' = Response("signUp", u, Null, 400, {})
          /\ UNCHANGED storeVars
     ELSE LET role == RoleFor(u)
          IN /\ users' = AddRow(users, u, [name |-> NameOf(u), role |-> role,
                                           approved |-> InitialApproval(role)])
             /\ patients' = IF role = "patient" THEN patients \cup {u} ELSE patients
             /\ donors' = IF role = "donor" THEN AddRow(donors, u, NewDonorRow) ELSE donors
             /\ hospitals' = IF role = "hospital" THEN AddRow(hospitals, u, NewHospitalRow) ELSE hospitals
             /\ sponsors' = IF role = "sponsor" THEN AddRow(sponsors, u, NewSponsorRow) ELSE sponsors
             /\ logEvent(AuditEntry(u, "USER_SIGNUP", role, Null, Null, 0), ok)
             /\ resp' = Response("signUp", u, Null, 200, {})
             /\ UNCHANGED <<cases, case_sponsors>>
  /\ UNCHANGED <<reqs, approvals, approveCalls, kv, donorVars>>

\* POST /auth/signup when an insert returns an error.  A failed insert into
\* users is thrown, the auth user is deleted again and the request answers 400;
\* the result of the role profile insert is not read, so signUp returns the user
\* and the request answers 200.
SignUpFailing(u, userStored, ok) ==
  /\ Ready
  /\ u \in UserIds \ DOMAIN users
  /\ IF ~userStored
     THEN /\ resp' = Response("signUp", u, Null, 400, {})
          /\ UNCHANGED storeVars
     ELSE /\ users' = AddRow(users, u, [name |-> NameOf(u), role |-> RoleFor(u),
                                        approved |-> InitialApproval(RoleFor(u))])
          /\ logEvent(AuditEntry(u, "USER_SIGNUP", RoleFor(u), Null, Null, 0), ok)
          /\ resp' = Response("signUp", u, Null, 200, {})
          /\ UNCHANGED <<patients, donors, hospitals, sponsors, cases, case_sponsors>>
  /\ UNCHANGED <<reqs, approvals, approveCalls, kv, donorVars>>

\* POST /auth/signin with valid credentials
SignIn(u, ok) ==
  /\ Ready
  /\ u \in DOMAIN users
  /\ IF users[u].role \in {"hospital", "sponsor"} /\ ~users[u].approved
     THEN /\ resp' = Response("signIn", u, Null, 403, {})
          /\ UNCHANGED storeVars
     ELSE /\ logEvent(AuditEntry(u, "USER_SIGNIN", Null, Null, Null, 0), ok)
          /\ resp' = Response("signIn", u, Null, 200, {})
          /\ UNCHANGED <<users, patients, donors, hospitals, sponsors, cases, case_sponsors>>
  /\ UNCHANGED <<reqs, approvals, approveCalls, kv, donorVars>>

\* ----------------------------------------------- adminService.approveUser
\* requireAdmin, the target lookup and UPDATE users SET approved = true
ApproveUserBegin(a, t) ==
  /\ Ready
  /\ a \in DOMAIN users
  /\ IF users[a].role # "admin"
     THEN /\ resp' = Response("approveUser", a, t, 403, {})
          /\ UNCHANGED <<users, approvals, approveCalls>>
     ELSE IF t = Undef
     THEN /\ resp' = Response("approveUser", a, t, 400, {})
          /\ UNCHANGED <<users, approvals, approveCalls>>
     ELSE IF t \notin DOMAIN users
     THEN /\ resp' = Response("approveUser", a, t, 404, {})
          /\ UNCHANGED <<users, approvals, approveCalls>>
     ELSE /\ [admin |-> a, target |-> t] \notin approvals
          /\ users' = [users EXCEPT ![t].approved = TRUE]
          /\ approvals' = approvals \cup {[admin |-> a, target |-> t]}
          /\ approveCalls' = approveCalls \cup {[admin |-> a, target |-> t]}
          /\ UNCHANGED resp
  /\ UNCHANGED <<patients, donors, hospitals, sponsors, cases, case_sponsors, audit_logs, reqs, kv, donorVars>>

\* UPDATE hospitals/sponsors SET approved = true, the audit entry and the response
ApproveUserFinish(x, ok) ==
  /\ Ready
  /\ x \in approvals
  /\ LET t == x.target
         role == users[t].role
     IN /\ hospitals' = IF role = "hospital" /\ t \in DOMAIN hospitals
                        THEN [hospitals EXCEPT ![t].approved = TRUE] ELSE hospitals
        /\ sponsors' = IF role = "sponsor" /\ t \in DOMAIN sponsors
                       THEN [sponsors EXCEPT ![t].approved = TRUE] ELSE sponsors
        /\ logEvent(AuditEntry(x.admin, "USER_APPROVED", role, Null, t, 0), ok)
        /\ resp' = Response("approveUser", x.admin, t, 200, {})
  /\ approvals' = approvals \ {x}
  /\ UNCHANGED <<users, patients, donors, cases, case_sponsors, reqs, approveCalls, kv, donorVars>>

\* the same step when the UPDATE of hospitals/sponsors returns an error: the
\* service does not read the result and returns the approved user
ApproveUserFinishLost(x, ok) ==
  /\ Ready
  /\ x \in approvals
  /\ users[x.target].role \in {"hospital", "sponsor"}
  /\ logEvent(AuditEntry(x.admin, "USER_APPROVED", users[x.target].role, Null, x.target, 0), ok)
  /\ resp' = Response("approveUser", x.admin, x.target, 200, {})
  /\ approvals' = approvals \ {x}
  /\ UNCHANGED <<users, patients, donors, hospitals, sponsors, cases, case_sponsors,
                 reqs, approveCalls, kv, donorVars>>

\* ------------------------- edge function server (supabase/functions/server)
\* The key-value store kv holds user:<id>, hospital:<id>, sponsor:<id>,
\* patient:<id>, case:<time>:<patient id> and audit:<time>:<id> entries.  A case
\* key is [slot, uid]: the slot stands for the creation time, the uid is the
\* patient's id the key is built from.  Audit entries are kept as a bag, without
\* their time stamps and without the "changes" copy of the request body.
EdgeCaseKeys == [slot : CaseIds, uid : Patients]

EdgeAudit(userId, action, caseId) == [userId |-> userId, action |-> action, caseId |-> caseId]

\* kv.set of an audit entry; a failed write throws and the handler answers 500
EdgeLog(store, entry, ok) ==
  IF ok THEN [store EXCEPT !.audit = @ (+) SetToBag({entry})] ELSE store
EdgeLogRoom(ok) == ok => BagCardinality(kv.audit) < MaxAudit

\* POST /make-server-db599f4a/cases
EdgeCreateCase(u, slot, organNeeded, urgencyLevel, ok) ==
  /\ Ready
  /\ u \in DOMAIN kv.users
  /\ \A k \in DOMAIN kv.cases : k.slot # slot
  /\ slot \in CaseIds
  /\ IF kv.users[u].role # "patient"
     THEN /\ resp' = Response("createCase", u, Null, 403, {})
          /\ UNCHANGED kv
     ELSE IF organNeeded = Undef \/ urgencyLevel = Undef
     THEN /\ resp' = Response("createCase", u, Null, 400, {})
          /\ UNCHANGED kv
     ELSE LET key == [slot |-> slot, uid |-> u]
              newCase == [id |-> key, patientId |-> u, patientName |-> kv.users[u].name,
                          organNeeded |-> organNeeded, urgencyLevel |-> urgencyLevel,
                          status |-> "waiting", matchedDonorId |-> Null,
                          assignedHospitalId |-> Null, fundingAmount |-> 0, fundingGoal |-> 0,
                          sponsors |-> <<>>]
              written == [kv EXCEPT !.cases = AddRow(@, key, newCase),
                                    !.patients[u] = @ \cup {key}]
          IN /\ EdgeLogRoom(ok)
             /\ kv' = EdgeLog(written, EdgeAudit(u, "CASE_CREATED", key), ok)
             /\ resp' = Response("createCase", u, Null, IF ok THEN 200 ELSE 500,
                                 IF ok THEN {newCase} ELSE {})
  /\ UNCHANGED <<storeVars, reqs, approvals, approveCalls, donorVars>>

\* GET /make-server-db599f4a/cases: the filteredCases of each role
EdgeFilteredCases(u, store) ==
  LET role == store.users[u].role
      allCases == {store.cases[k] : k \in DOMAIN store.cases}
  IN IF role = "patient" THEN {c \in allCases : c.patientId = u}
     ELSE IF role = "donor"
     THEN {[id |-> c.id, organNeeded |-> c.organNeeded, urgencyLevel |-> c.urgencyLevel,
            status |-> c.status] : c \in allCases}
     ELSE IF role = "hospital"
     THEN {c \in allCases : c.assignedHospitalId \in {Null, u}}
     ELSE IF role = "sponsor"
     THEN {[id |-> c.id, patientName |-> c.patientName, organNeeded |-> c.organNeeded,
            urgencyLevel |-> c.urgencyLevel, status |-> c.status,
            fundingAmount |-> c.fundingAmount, fundingGoal |-> c.fundingGoal] : c \in allCases}
     ELSE allCases

EdgeGetCases(u) ==
  /\ Ready
  /\ u \in DOMAIN kv.users
  /\ LET role == kv.users[u].role
         denied == \/ role = "hospital" /\ ~kv.hospitals[u].approved
                   \/ role = "sponsor" /\ ~kv.sponsors[u].approved
     IN resp' = IF denied THEN Response("getCases", u, Null, 403, {})
                ELSE Response("getCases", u, Null, 200, EdgeFilteredCases(u, kv))
  /\ UNCHANGED <<storeVars, reqs, approvals, approveCalls, kv, donorVars>>

\* {...existingCase, ...body}: every field the body carries replaces the stored one
EdgeSpread(row, body) ==
  [row EXCEPT !.status = IF body.status # Undef THEN body.status ELSE @,
              !.assignedHospitalId = IF body.assignedHospitalId # Undef THEN body.assignedHospitalId ELSE @,
              !.matchedDonorId = IF body.matchedDonorId # Undef THEN body.matchedDonorId ELSE @,
              !.fundingAmount = IF body.fundingAmount # UndefNum THEN body.fundingAmount ELSE @]

\* variant of the handler without the role test
EdgeUpdateCaseAnyRole(u, key, body, ok) ==
  /\ Ready
  /\ u \in DOMAIN kv.users
  /\ IF key \notin DOMAIN kv.cases
     THEN /\ resp' = Response("updateCase", u, Null, 404, {})
          /\ UNCHANGED kv
     ELSE /\ EdgeLogRoom(ok)
          /\ kv' = EdgeLog([kv EXCEPT !.cases[key] = EdgeSpread(@, body)],
                           EdgeAudit(u, "CASE_UPDATED", key), ok)
          /\ resp' = Response("updateCase", u, Null, IF ok THEN 200 ELSE 500, {})
  /\ UNCHANGED <<storeVars, reqs, approvals, approveCalls, donorVars>>

\* PUT /make-server-db599f4a/cases/:caseId
EdgeUpdateCase(u, key, body, ok) ==
  /\ Ready
  /\ u \in DOMAIN kv.users
  /\ IF kv.users[u].role \notin {"hospital", "admin"}
     THEN /\ resp' = Response("updateCase", u, Null, 403, {})
          /\ UNCHANGED kv
     ELSE IF key \notin DOMAIN kv.cases
     THEN /\ resp' = Response("updateCase", u, Null, 404, {})
          /\ UNCHANGED kv
     ELSE /\ EdgeLogRoom(ok)
          /\ kv' = EdgeLog([kv EXCEPT !.cases[key] = EdgeSpread(@, body)],
                           EdgeAudit(u, "CASE_UPDATED", key), ok)
          /\ resp' = Response("updateCase", u, Null, IF ok THEN 200 ELSE 500, {})
  /\ UNCHANGED <<storeVars, reqs, approvals, approveCalls, donorVars>>

\* ------------------------------ edge server: POST /sponsor/fund
\* The handler reads the sponsor profile and the case, changes its copies and
\* writes them back; every kv call is an await at which another request runs.
NewEdgeSponsor(approved) == [approved |-> approved, fundedCases |-> <<>>, totalFunded |-> 0]
NewEdgeCase(key, u, organNeeded, urgencyLevel) ==
  [id |-> key, patientId |-> u, patientName |-> NameOf(u),
   organNeeded |-> organNeeded, urgencyLevel |-> urgencyLevel,
   status |-> "waiting", matchedDonorId |-> Null,
   assignedHospitalId |-> Null, fundingAmount |-> 0, fundingGoal |-> 0,
   sponsors |-> <<>>]
\* the copies a request holds before it has read anything
EdgeBlankCase == NewEdgeCase([slot |-> Null, uid |-> Null], Null, Null, Null)
EdgeIdleReq == [pc |-> "idle", sponsor |-> Null, case |-> [slot |-> Null, uid |-> Null],
                amount |-> 0, caseData |-> EdgeBlankCase,
                sponsorProfile |-> NewEdgeSponsor(FALSE)]

EdgeFundAudit(userId, caseId, amount) ==
  [userId |-> userId, action |-> "CASE_FUNDED", caseId |-> caseId, amount |-> amount]

\* entries of the sponsors list of the stored case, 0 when there is no such case
EdgeContributions(key) == IF key \in DOMAIN kv.cases THEN Len(kv.cases[key].sponsors) ELSE 0

\* kv.get of the user and the sponsor profile, and the body checks
EdgeFundBegin(r, u, key, amount) ==
  /\ Ready
  /\ reqs[r].pc = "idle"
  /\ u \in DOMAIN kv.users
  /\ IF kv.users[u].role # "sponsor" \/ ~kv.sponsors[u].approved
     THEN /\ resp' = Response("fundCase", u, Null, 403, {})
          /\ UNCHANGED reqs
     ELSE IF amount <= 0
     THEN /\ resp' = Response("fundCase", u, Null, 400, {})
          /\ UNCHANGED reqs
     ELSE /\ EdgeContributions(key) + Cardinality(InFlight) < MaxContrib
          /\ reqs' = [reqs EXCEPT ![r] = [EdgeIdleReq EXCEPT !.pc = "get", !.sponsor = u,
                                                             !.case = key, !.amount = amount,
                                                             !.sponsorProfile = kv.sponsors[u]]]
          /\ UNCHANGED resp
  /\ UNCHANGED <<storeVars, approvals, approveCalls, kv, donorVars>>

\* kv.get(caseId) and the changes to the copy: amount added, entry pushed,
\* status funded when the goal is reached
EdgeFundGet(r) ==
  /\ Ready
  /\ reqs[r].pc = "get"
  /\ IF reqs[r].case \notin DOMAIN kv.cases
     THEN /\ resp' = Response("fundCase", reqs[r].sponsor, Null, 404, {})
          /\ reqs' = [reqs EXCEPT ![r] = EdgeIdleReq]
     ELSE LET caseData == kv.cases[reqs[r].case]
              amount == reqs[r].amount
          IN /\ reqs' = [reqs EXCEPT ![r].pc = "setCase",
                                     ![r].caseData =
                                        [caseData EXCEPT
                                           !.fundingAmount = @ + amount,
                                           !.sponsors = Append(@, [sponsorId |-> reqs[r].sponsor,
                                                                   amount |-> amount]),
                                           !.status = IF /\ caseData.fundingGoal > 0
                                                         /\ caseData.fundingAmount + amount >= caseData.fundingGoal
                                                      THEN "funded" ELSE @]]
             /\ UNCHANGED resp
  /\ UNCHANGED <<storeVars, approvals, approveCalls, kv, donorVars>>

\* kv.set(caseId, caseData)
EdgeFundSetCase(r) ==
  /\ Ready
  /\ reqs[r].pc = "setCase"
  /\ kv' = [kv EXCEPT !.cases = AddRow(@, reqs[r].case, reqs[r].caseData)]
  /\ reqs' = [reqs EXCEPT ![r].pc = "setSponsor"]
  /\ UNCHANGED <<storeVars, approvals, approveCalls, resp, donorVars>>

\* kv.set of the sponsor profile read at the start
EdgeFundSetSponsor(r) ==
  /\ Ready
  /\ reqs[r].pc = "setSponsor"
  /\ kv' = [kv EXCEPT !.sponsors[reqs[r].sponsor] =
              [reqs[r].sponsorProfile EXCEPT !.fundedCases = Append(@, reqs[r].case),
                                             !.totalFunded = @ + reqs[r].amount]]
  /\ reqs' = [reqs EXCEPT ![r].pc = "audit"]
  /\ UNCHANGED <<storeVars, approvals, approveCalls, resp, donorVars>>

\* the audit entry and the response
EdgeFundFinish(r, ok) ==
  /\ Ready
  /\ reqs[r].pc = "audit"
  /\ kv' = EdgeLog(kv, EdgeFundAudit(reqs[r].sponsor, reqs[r].case, reqs[r].amount), ok)
  /\ resp' = Response("fundCase", reqs[r].sponsor, Null, IF ok THEN 200 ELSE 500,
                      IF ok THEN {reqs[r].caseData} ELSE {})
  /\ reqs' = [reqs EXCEPT ![r] = EdgeIdleReq]
  /\ UNCHANGED <<storeVars, approvals, approveCalls, donorVars>>

\* ------------------------------------------------ donorController.updateConsent
DonorTypes == {"living", "deceased"}
\* new Date().toISOString()
Now == "now"

ConsentAction(consentGiven) ==
  IF consentGiven = "true" THEN "CONSENT_GIVEN" ELSE "CONSENT_WITHDRAWN"

\* donorService.updateConsent: UPDATE donors SET donor_type, consent_given, consent_date
ConsentRow(row, donorType, consentGiven) ==
  [row EXCEPT !.donor_type = donorType,
              !.consent_given = (consentGiven = "true"),
              !.consent_date = IF consentGiven = "true" THEN Now ELSE Null]

\* variant of the handler without the required-fields test
UpdateConsentUnvalidated(u, donorType, consentGiven, ok) ==
  /\ Ready
  /\ u \in DOMAIN users
  /\ IF users[u].role # "donor"
     THEN /\ resp' = Response("updateConsent", u, Null, 403, {})
          /\ UNCHANGED storeVars
     ELSE IF donorType \notin DonorTypes \cup {Null, Undef} \/ u \notin DOMAIN donors
     THEN /\ resp' = Response("updateConsent", u, Null, 500, {})
          /\ UNCHANGED storeVars
     ELSE /\ donors' = [donors EXCEPT ![u] =
                          ConsentRow(@, IF donorType = Undef THEN Null ELSE donorType, consentGiven)]
          /\ logEvent(AuditEntry(u, ConsentAction(consentGiven), Null, Null, Null, 0), ok)
          /\ resp' = Response("updateConsent", u, Null, 200, {donors'[u]})
          /\ UNCHANGED <<users, patients, hospitals, sponsors, cases, case_sponsors>>
  /\ UNCHANGED <<reqs, approvals, approveCalls, kv, donorVars>>

\* POST /donor/consent; a donorType outside the donor_type enum fails the UPDATE
UpdateConsent(u, donorType, consentGiven, ok) ==
  /\ Ready
  /\ u \in DOMAIN users
  /\ IF users[u].role # "donor"
     THEN /\ resp' = Response("updateConsent", u, Null, 403, {})
          /\ UNCHANGED storeVars
     ELSE IF donorType \in {Undef, Null} \/ consentGiven = Undef
     THEN /\ resp' = Response("updateConsent", u, Null, 400, {})
          /\ UNCHANGED storeVars
     ELSE IF donorType \notin DonorTypes \/ u \notin DOMAIN donors
     THEN /\ resp' = Response("updateConsent", u, Null, 500, {})
          /\ UNCHANGED storeVars
     ELSE /\ donors' = [donors EXCEPT ![u] = ConsentRow(@, donorType, consentGiven)]
          /\ logEvent(AuditEntry(u, ConsentAction(consentGiven), Null, Null, Null, 0), ok)
          /\ resp' = Response("updateConsent", u, Null, 200, {donors'[u]})
          /\ UNCHANGED <<users, patients, hospitals, sponsors, cases, case_sponsors>>
  /\ UNCHANGED <<reqs, approvals, approveCalls, kv, donorVars>>

\* DonorDashboard.handleWithdrawConsent: the donor's stored type, consentGiven false
handleWithdrawConsent(u, ok) ==
  /\ u \in DOMAIN donors
  /\ UpdateConsent(u, donors[u].donor_type, "false", ok)

\* POST /auth/signout
SignOut(u, ok) ==
  /\ Ready
  /\ u \in DOMAIN users
  /\ logEvent(AuditEntry(u, "USER_SIGNOUT", Null, Null, Null, 0), ok)
  /\ resp' = Response("signOut", u, Null, 200, {})
  /\ UNCHANGED <<users, patients, donors, hospitals, sponsors, cases, case_sponsors>>
  /\ UNCHANGED <<reqs, approvals, approveCalls, kv, donorVars>>

\* edge server: the donor:<id> entry written at signup
NewEdgeDonor == [donorType |-> Null, consentGiven |-> FALSE, consentDate |-> Null,
                 canWithdraw |-> TRUE]

\* POST /make-server-db599f4a/donor/consent
EdgeUpdateConsent(u, donorType, consentGiven, ok) ==
  /\ Ready
  /\ u \in DOMAIN kv.users
  /\ IF kv.users[u].role # "donor"
     THEN /\ resp' = Response("updateConsent", u, Null, 403, {})
          /\ UNCHANGED kv
     ELSE IF donorType \in {Undef, Null} \/ consentGiven = Undef
     THEN /\ resp' = Response("updateConsent", u, Null, 400, {})
          /\ UNCHANGED kv
     ELSE LET written == [kv EXCEPT !.donors[u] =
                            [@ EXCEPT !.donorType = donorType,
                                      !.consentGiven = (consentGiven = "true"),
                                      !.consentDate = Now]]
          IN /\ EdgeLogRoom(ok)
             /\ kv' = EdgeLog(written, EdgeAudit(u, ConsentAction(consentGiven), Null), ok)
             /\ resp' = Response("updateConsent", u, Null, IF ok THEN 200 ELSE 500,
                                 IF ok THEN {written.donors[u]} ELSE {})
  /\ UNCHANGED <<storeVars, reqs, approvals, approveCalls, donorVars>>

\* ------------------------------- donor registration service (part_001)
\* The service runs in the browser and sends each statement to the database on
\* the donor's own session, so each statement commits by itself; a registration
\* answers 200 for {success: true}, 400 for validation errors and 500 for a
\* failed statement.
MinAge == 18
MaxAge == 100
RegIds == {1}
OrganNames == {"bone_marrow", "heart"}
\* the organs the trigger allows a living donor
LivingOrgans == {"kidney", "partial_liver", "bone_marrow", "blood"}

DonorData ==
  [organs : SUBSET OrganNames, bloodType : {Undef, "O+"}, age : {MinAge - 1, MinAge},
   gender : {Undef, "male"}, medicalHistory : {Undef, "history"},
   contactName : {Undef, "kin"}, consent : BOOLEAN]

validateLivingDonorData(data) ==
  /\ data.organs # {}
  /\ data.bloodType # Undef
  /\ data.age >= MinAge /\ data.age <= MaxAge
  /\ data.gender # Undef
  /\ data.medicalHistory # Undef
  /\ data.consent

\* the next of kin's phone and relationship are sent filled; the name may be missing
validateDeceasedDonorData(data) ==
  /\ data.organs # {}
  /\ data.bloodType # Undef
  /\ data.contactName # Undef
  /\ data.consent

RegOp(kind) == IF kind = "living" THEN "registerLivingDonor" ELSE "registerDeceasedDonor"

MedicalOf(d) == IF d \in DOMAIN donor_medical_info THEN {donor_medical_info[d]} ELSE {}
OrgansOf(d) == {x \in donor_organs : x.donor_id = d}
ContactRow(d, name) ==
  [donor_id |-> d, contact_type |-> "next_of_kin", full_name |-> name,
   relationship |-> "sibling", phone |-> "0700000000", is_primary |-> TRUE]
ContactsOf(d) == {x \in BagToSet(emergency_contacts) : x.donor_id = d}

\* what the donor's rows were when the registration was called
DonorSnapshot(d) ==
  [donor |-> donors[d], medical |-> MedicalOf(d), organs |-> OrgansOf(d),
   contacts |-> [x \in ContactsOf(d) |-> CopiesIn(x, emergency_contacts)]]
IdleReg ==
  [pc |-> "idle", donor |-> Null, kind |-> Null, organs |-> {}, bloodType |-> Null,
   age |-> 0, gender |-> Null, contactName |-> Null,
   before |-> [donor |-> NewDonorRow, medical |-> {}, organs |-> {}, contacts |-> <<>>]]

\* BEFORE INSERT OR UPDATE trigger on donor_organs: TRUE when the row is let through
validate_living_donor_organs(dtbl, new) ==
  ~(/\ new.donor_id \in DOMAIN dtbl
    /\ dtbl[new.donor_id].donor_type = "living"
    /\ new.is_living_donation
    /\ new.organ_name \notin LivingOrgans)

\* the call and its client-side validation
RegBegin(g, d, kind, data) ==
  /\ Ready
  /\ regs[g].pc = "idle"
  /\ d \in DOMAIN donors
  /\ IF (kind = "living" /\ ~validateLivingDonorData(data))
        \/ (kind = "deceased" /\ ~validateDeceasedDonorData(data))
     THEN /\ resp' = Response(RegOp(kind), d, Null, 400, {})
          /\ UNCHANGED regs
     ELSE /\ regs' = [regs EXCEPT ![g] =
                        [pc |-> "donor", donor |-> d, kind |-> kind, organs |-> data.organs,
                         bloodType |-> data.bloodType, age |-> data.age, gender |-> data.gender,
                         contactName |-> data.contactName, before |-> DonorSnapshot(d)]]
          /\ UNCHANGED resp
  /\ UNCHANGED <<storeVars, approvals, approveCalls, reqs, kv,
                 donor_medical_info, donor_organs, emergency_contacts>>

\* a statement failed: the error is thrown, caught and returned
RegFail(g) ==
  /\ resp' = Response(RegOp(regs[g].kind), regs[g].donor, Null, 500, {})
  /\ regs' = [regs EXCEPT ![g] = IdleReg]

\* UPDATE donors SET donor_type, consent_given, consent_date
RegDonorUpdate(g, ok) ==
  /\ Ready
  /\ regs[g].pc = "donor"
  /\ IF ok
     THEN /\ donors' = [donors EXCEPT ![regs[g].donor] =
                          [@ EXCEPT !.donor_type = regs[g].kind, !.consent_given = TRUE,
                                    !.consent_date = Now]]
          /\ regs' = [regs EXCEPT ![g].pc = "medical"]
          /\ UNCHANGED resp
     ELSE /\ RegFail(g)
          /\ UNCHANGED donors
  /\ UNCHANGED <<users, patients, hospitals, sponsors, cases, case_sponsors, audit_logs,
                 approvals, approveCalls, reqs, kv,
                 donor_medical_info, donor_organs, emergency_contacts>>

\* upsert into donor_medical_info on conflict (donor_id): a deceased donor's
\* request carries no age and no gender
MedicalUpsert(tbl, r) ==
  LET d == r.donor
      row == IF r.kind = "living"
             THEN [blood_type |-> r.bloodType, age |-> r.age, gender |-> r.gender]
             ELSE IF d \in DOMAIN tbl THEN [tbl[d] EXCEPT !.blood_type = r.bloodType]
             ELSE [blood_type |-> r.bloodType, age |-> 0, gender |-> Null]
  IN [x \in DOMAIN tbl \cup {d} |-> IF x = d THEN row ELSE tbl[x]]

RegMedicalUpsert(g, ok) ==
  /\ Ready
  /\ regs[g].pc = "medical"
  /\ IF ok
     THEN /\ donor_medical_info' = MedicalUpsert(donor_medical_info, regs[g])
          /\ regs' = [regs EXCEPT ![g].pc = "delete"]
          /\ UNCHANGED resp
     ELSE /\ RegFail(g)
          /\ UNCHANGED donor_medical_info
  /\ UNCHANGED <<storeVars, approvals, approveCalls, reqs, kv, donor_organs, emergency_contacts>>

\* DELETE FROM donor_organs WHERE donor_id: the result is not looked at
RegOrganDelete(g, ok) ==
  /\ Ready
  /\ regs[g].pc = "delete"
  /\ donor_organs' = IF ok THEN donor_organs \ OrgansOf(regs[g].donor) ELSE donor_organs
  /\ regs' = [regs EXCEPT ![g].pc = "insert"]
  /\ UNCHANGED <<storeVars, approvals, approveCalls, reqs, resp, kv,
                 donor_medical_info, emergency_contacts>>

organInserts(r) ==
  {[donor_id |-> r.donor, organ_name |-> o, is_living_donation |-> (r.kind = "living")] :
     o \in r.organs}

\* the batch insert is one statement: UNIQUE (donor_id, organ_name) and the
\* trigger hold for every row or no row is inserted
OrganInsertAccepted(r) ==
  /\ \A new \in organInserts(r) :
       /\ validate_living_donor_organs(donors, new)
       /\ \A x \in donor_organs : ~(x.donor_id = new.donor_id /\ x.organ_name = new.organ_name)

\* INSERT INTO donor_organs; the last statement of a living donor's registration
RegOrganInsert(g, ok) ==
  /\ Ready
  /\ regs[g].pc = "insert"
  /\ IF ok /\ OrganInsertAccepted(regs[g])
     THEN /\ donor_organs' = donor_organs \cup organInserts(regs[g])
          /\ IF regs[g].kind = "living"
             THEN /\ resp' = Response(RegOp("living"), regs[g].donor, Null, 200, {})
                  /\ regs' = [regs EXCEPT ![g] = IdleReg]
             ELSE /\ regs' = [regs EXCEPT ![g].pc = "contact"]
                  /\ UNCHANGED resp
     ELSE /\ RegFail(g)
          /\ UNCHANGED donor_organs
  /\ UNCHANGED <<storeVars, approvals, approveCalls, reqs, kv,
                 donor_medical_info, emergency_contacts>>

\* INSERT INTO emergency_contacts; the last statement of a deceased donor's registration
RegContactInsert(g, ok) ==
  /\ Ready
  /\ regs[g].pc = "contact"
  /\ ok => BagCardinality(emergency_contacts) < MaxContacts
  /\ IF ok
     THEN /\ emergency_contacts' =
               emergency_contacts (+) SetToBag({ContactRow(regs[g].donor, regs[g].contactName)})
          /\ resp' = Response(RegOp("deceased"), regs[g].donor, Null, 200, {})
          /\ regs' = [regs EXCEPT ![g] = IdleReg]
     ELSE /\ RegFail(g)
          /\ UNCHANGED emergency_contacts
  /\ UNCHANGED <<storeVars, approvals, approveCalls, reqs, kv,
                 donor_medical_info, donor_organs>>

\* ------------------------- reads of donor_medical_info (part_013 policies)
\* policy "Donors can view own medical info": auth.uid() = donor_id
DonorsCanViewOwnMedicalInfo(u, d) == u = d
\* policy "Admins can view all medical info"
AdminsCanViewAllMedicalInfo(u) == u \in DOMAIN users /\ users[u].role = "admin"

\* SELECT * FROM donor_medical_info WHERE donor_id = d, on the session of u
SelectMedicalInfo(u, d) ==
  {[donor_id |-> d, blood_type |-> donor_medical_info[d].blood_type,
    age |-> donor_medical_info[d].age, gender |-> donor_medical_info[d].gender] :
     x \in {y \in {d} \cap DOMAIN donor_medical_info :
              DonorsCanViewOwnMedicalInfo(u, y) \/ AdminsCanViewAllMedicalInfo(u)}}

\* getDonorProfile(userId, accessToken) called with the token of u for donor d
GetDonorProfile(u, d) ==
  /\ Ready
  /\ u \in DOMAIN users
  /\ resp' = Response("getDonorProfile", u, Null, 200, SelectMedicalInfo(u, d))
  /\ UNCHANGED <<storeVars, reqs, approvals, approveCalls, kv, donorVars>>

\* the view available_donors: it is evaluated with its owner's rights, so the
\* policies of donor_medical_info do not filter its rows by caller
available_donors ==
  {[donor_id |-> d, donor_type |-> donors[d].donor_type,
    blood_type |-> donor_medical_info[d].blood_type,
    age |-> donor_medical_info[d].age, gender |-> donor_medical_info[d].gender,
    available_organs |-> {x.organ_name : x \in OrgansOf(d)},
    consent_given |-> donors[d].consent_given] :
     d \in {y \in DOMAIN donors \cap DOMAIN donor_medical_info :
              donors[y].consent_given /\ OrgansOf(y) # {}}}

\* SELECT * FROM available_donors on the session of u.  The migration grants
\* nothing on the objects it creates: as for the tables the registration
\* service writes, the privilege comes from the project's default privileges
\* (granted), or the select is refused.
SelectAvailableDonors(u, granted) ==
  /\ Ready
  /\ u \in DOMAIN users
  /\ resp' = IF granted
             THEN Response("selectAvailableDonors", u, Null, 200, available_donors)
             ELSE Response("selectAvailableDonors", u, Null, 403, {})
  /\ UNCHANGED <<storeVars, reqs, approvals, approveCalls, kv, donorVars>>

\* res.json(...): the response is sent
Deliver ==
  /\ resp # NoResp
  /\ resp' = NoResp
  /\ UNCHANGED <<storeVars, reqs, approvals, approveCalls, kv, donorVars>>

\* ------------------------------------------------------------------ inputs
OrganInputs == {Undef, "kidney"}
UrgencyInputs == {Undef, "high"}
AmountInputs == 0..MaxAmount
GoalInputs == {UndefNum, 0, MaxAmount}
UpdateBodies ==
  [status : {Undef} \cup Statuses,
   assignedHospitalId : {Undef, Null} \cup Hospitals,
   matchedDonorId : {Undef, Null} \cup Donors,
   fundingGoal : GoalInputs]
\* the bodies that set the status or the funding goal only
StatusGoalBodies ==
  {b \in UpdateBodies : b.assignedHospitalId = Undef /\ b.matchedDonorId = Undef}

EdgeBodies ==
  [status : {Undef} \cup Statuses,
   assignedHospitalId : {Undef, Null, "h1", "h2"},
   matchedDonorId : {Undef, Null} \cup Donors,
   fundingAmount : {UndefNum, 0, MaxAmount}]
\* what a caller of a role sends: the controller reads the body of a hospital
\* or an admin only
BodiesFor(u) ==
  IF RoleFor(u) = "admin" THEN UpdateBodies
  ELSE IF RoleFor(u) = "hospital" THEN {b \in UpdateBodies : b.fundingGoal # 0}
  ELSE {b \in StatusGoalBodies : b.fundingGoal = UndefNum}
EdgeBodiesFor(u) ==
  IF RoleFor(u) \in {"admin", "hospital"} THEN EdgeBodies
  ELSE {b \in EdgeBodies : b.assignedHospitalId = Undef /\ b.matchedDonorId = Undef}

\* --------------------------------------------------------- initial states
\* no donor has registered and no registration is under way
NoRegistrations ==
  /\ donor_medical_info = <<>>
  /\ donor_organs = {}
  /\ emergency_contacts = EmptyBag
  /\ regs = [g \in RegIds |-> IdleReg]

UserRow(u, approved) == [name |-> NameOf(u), role |-> RoleFor(u), approved |-> approved]

\* every account signed up; h1, h2 and s1 approved by a1; h3 and s2 pending
ApprovedAtStart == {"h1", "h2", "s1"}
InitAccounts ==
  /\ users = [u \in UserIds |-> UserRow(u, InitialApproval(RoleFor(u)) \/ u \in ApprovedAtStart)]
  /\ patients = Patients
  /\ donors = [u \in Donors |-> NewDonorRow]
  /\ hospitals = [u \in Hospitals |-> [approved |-> u \in ApprovedAtStart]]
  /\ sponsors = [u \in Sponsors |-> [NewSponsorRow EXCEPT !.approved = u \in ApprovedAtStart]]
  /\ cases = <<>>
  /\ case_sponsors = EmptyBag
  /\ audit_logs = EmptyBag
  /\ reqs = [r \in ReqIds |-> IdleReq]
  /\ approvals = {}
  /\ approveCalls = {[admin |-> "a1", target |-> t] : t \in ApprovedAtStart}
  /\ resp = NoResp
  /\ NoRegistrations
  /\ kv = EmptyKv

\* the edge deployment with the same accounts: the SQL tables are not used
InitEdge ==
  /\ users = <<>>
  /\ patients = {}
  /\ donors = <<>>
  /\ hospitals = <<>>
  /\ sponsors = <<>>
  /\ cases = <<>>
  /\ case_sponsors = EmptyBag
  /\ audit_logs = EmptyBag
  /\ reqs = [r \in ReqIds |-> IdleReq]
  /\ approvals = {}
  /\ approveCalls = {}
  /\ resp = NoResp
  /\ NoRegistrations
  /\ kv = [users |-> [u \in UserIds |-> UserRow(u, InitialApproval(RoleFor(u)) \/ u \in ApprovedAtStart)],
           hospitals |-> [u \in Hospitals |-> [approved |-> u \in ApprovedAtStart]],
           sponsors |-> [u \in Sponsors |-> [approved |-> u \in ApprovedAtStart]],
           patients |-> [u \in Patients |-> {}],
           donors |-> [u \in Donors |-> NewEdgeDonor],
           cases |-> <<>>,
           audit |-> EmptyBag]

\* the administrator, and patient p1 with the case c1 it created
InitAuth ==
  /\ users = [u \in {"a1", "p1"} |-> UserRow(u, InitialApproval(RoleFor(u)))]
  /\ patients = {"p1"}
  /\ donors = <<>>
  /\ hospitals = <<>>
  /\ sponsors = <<>>
  /\ cases = [c \in {"c1"} |-> NewCaseRow("p1", "kidney", "high")]
  /\ case_sponsors = EmptyBag
  /\ audit_logs = EmptyBag
  /\ reqs = [r \in ReqIds |-> IdleReq]
  /\ approvals = {}
  /\ approveCalls = {}
  /\ resp = NoResp
  /\ NoRegistrations
  /\ kv = EmptyKv

\* ------------------------------------------- Spec: the case lifecycle
\* the Express backend on the SQL store, or the edge server on its key-value store
Init == InitAccounts \/ InitEdge

Next ==
  \/ \E u \in UserIds, c \in CaseIds, o \in OrganInputs, l \in UrgencyInputs, ok \in BOOLEAN :
        CreateCase(u, c, o, l, ok)
  \/ \E u \in UserIds, c \in CaseIds, ok \in BOOLEAN : \E b \in BodiesFor(u) :
        UpdateCase(u, c, b, ok)
  \/ \E u \in UserIds : GetCases(u)
  \/ \E u \in UserIds, c \in CaseIds, o \in OrganInputs, l \in UrgencyInputs, ok \in BOOLEAN :
        EdgeCreateCase(u, c, o, l, ok)
  \/ \E u \in UserIds, k \in EdgeCaseKeys, ok \in BOOLEAN : \E b \in EdgeBodiesFor(u) :
        EdgeUpdateCase(u, k, b, ok)
  \/ \E u \in UserIds : EdgeGetCases(u)
  \/ Deliver

Spec == Init /\ [][Next]_vars

\* ------------------------------- SpecFund: concurrent funding requests
NextFund ==
  \/ \E c \in CaseIds, ok \in BOOLEAN : CreateCase("p1", c, "kidney", "high", ok)
  \/ \E c \in CaseIds, b \in StatusGoalBodies, ok \in BOOLEAN : UpdateCase("a1", c, b, ok)
  \/ \E r \in ReqIds, u \in Sponsors, c \in CaseIds \cup {Undef}, a \in AmountInputs :
        FundBegin(r, u, c, a)
  \/ \E r \in ReqIds : FundInsert(r)
  \/ \E r \in ReqIds, ok \in BOOLEAN : FundFinish(r, ok)
  \/ Deliver

SpecFund == InitAccounts /\ [][NextFund]_vars

\* ------------------------------- SpecAuth: signup, approval and gated reads
AuthUsers == {"p2", "d1", "h1", "s1"}
NextAuth ==
  \/ \E u \in AuthUsers, ok \in BOOLEAN : SignUp(u, ok)
  \/ \E u \in AuthUsers, ok \in BOOLEAN : SignIn(u, ok)
  \/ \E a \in AuthUsers \cup Admins, t \in {"h1", "s1", "d1", Undef} : ApproveUserBegin(a, t)
  \/ \E x \in approvals, ok \in BOOLEAN : ApproveUserFinish(x, ok)
  \/ \E u \in AuthUsers : GetCases(u)
  \/ \E u \in AuthUsers, c \in CaseIds : FundBegin(1, u, c, MaxAmount)
  \/ FundInsert(1)
  \/ \E ok \in BOOLEAN : FundFinish(1, ok)
  \/ Deliver

SpecAuth == InitAuth /\ [][NextAuth]_vars

\* ---------------------- SpecDonor: consent and registration of a donor
ConsentTypeInputs == {Undef, Null, "other"} \cup DonorTypes
ConsentInputs == {Undef, "true", "false"}
\* registration forms with at most one field left out or out of range
RegInputs ==
  {x \in DonorData :
     Cardinality({f \in {"bloodType", "gender", "medicalHistory", "contactName"} : x[f] = Undef}
                 \cup (IF x.age < MinAge THEN {"age"} ELSE {})
                 \cup (IF x.consent THEN {} ELSE {"consent"})) <= 1}

NextDonor ==
  \/ \E u \in Donors \cup {"p1"}, t \in ConsentTypeInputs, c \in ConsentInputs, ok \in BOOLEAN :
        UpdateConsent(u, t, c, ok)
  \/ \E u \in Donors, ok \in BOOLEAN : handleWithdrawConsent(u, ok)
  \/ \E g \in RegIds, d \in Donors, kind \in DonorTypes, data \in RegInputs :
        RegBegin(g, d, kind, data)
  \/ \E g \in RegIds, ok \in BOOLEAN : RegDonorUpdate(g, ok)
  \/ \E g \in RegIds, ok \in BOOLEAN : RegMedicalUpsert(g, ok)
  \/ \E g \in RegIds, ok \in BOOLEAN : RegOrganDelete(g, ok)
  \/ \E g \in RegIds, ok \in BOOLEAN : RegOrganInsert(g, ok)
  \/ \E g \in RegIds, ok \in BOOLEAN : RegContactInsert(g, ok)
  \/ \E u \in Donors \cup {"p1"}, t \in ConsentTypeInputs, c \in ConsentInputs, ok \in BOOLEAN :
        EdgeUpdateConsent(u, t, c, ok)
  \/ Deliver

SpecDonor == Init /\ [][NextDonor]_vars

\* ------------------- SpecAudit: the audited operations of the Express backend
AuditUsers == {"a1", "p1", "d1", "s1", "h3"}
\* the administrator, a patient, a donor, the approved sponsor s1 and the pending hospital h3
InitAudit ==
  /\ users = [u \in AuditUsers |-> UserRow(u, InitialApproval(RoleFor(u)) \/ u = "s1")]
  /\ patients = {"p1"}
  /\ donors = [u \in {"d1"} |-> NewDonorRow]
  /\ hospitals = [u \in {"h3"} |-> NewHospitalRow]
  /\ sponsors = [u \in {"s1"} |-> [NewSponsorRow EXCEPT !.approved = TRUE]]
  /\ cases = <<>>
  /\ case_sponsors = EmptyBag
  /\ audit_logs = EmptyBag
  /\ reqs = [r \in ReqIds |-> IdleReq]
  /\ approvals = {}
  /\ approveCalls = {[admin |-> "a1", target |-> "s1"]}
  /\ resp = NoResp
  /\ NoRegistrations
  /\ kv = EmptyKv

\* the bodies that set the status only
StatusBodies == {b \in StatusGoalBodies : b.fundingGoal = UndefNum /\ b.status # Undef}

NextAudit ==
  \/ \E ok \in BOOLEAN : SignUp("p2", ok)
  \/ \E u \in {"p1", "h3"}, ok \in BOOLEAN : SignIn(u, ok)
  \/ \E ok \in BOOLEAN : SignOut("p1", ok)
  \/ \E c \in CaseIds, ok \in BOOLEAN : CreateCase("p1", c, "kidney", "high", ok)
  \/ \E c \in CaseIds, b \in StatusBodies, ok \in BOOLEAN : UpdateCase("a1", c, b, ok)
  \/ \E c \in CaseIds : FundBegin(1, "s1", c, MaxAmount)
  \/ FundInsert(1)
  \/ \E ok \in BOOLEAN : FundFinish(1, ok)
  \/ \E t \in DonorTypes, c \in {"true", "false"}, ok \in BOOLEAN : UpdateConsent("d1", t, c, ok)
  \/ ApproveUserBegin("a1", "h3")
  \/ \E x \in approvals, ok \in BOOLEAN : ApproveUserFinish(x, ok)
  \/ Deliver

SpecAudit == InitAudit /\ [][NextAudit]_vars

\* --------------- SpecRead: who reads a registered donor's medical info
\* complete forms for one organ
CompleteForms ==
  {x \in RegInputs : /\ validateLivingDonorData(x) /\ validateDeceasedDonorData(x)
                     /\ x.organs = {"bone_marrow"}}
ReaderIds == {"d1", "p1", "h1", "s1", "a1"}

NextRead ==
  \/ \E d \in Donors, kind \in DonorTypes, data \in CompleteForms : RegBegin(1, d, kind, data)
  \/ \E ok \in BOOLEAN : RegDonorUpdate(1, ok)
  \/ \E ok \in BOOLEAN : RegMedicalUpsert(1, ok)
  \/ \E ok \in BOOLEAN : RegOrganDelete(1, ok)
  \/ \E ok \in BOOLEAN : RegOrganInsert(1, ok)
  \/ \E ok \in BOOLEAN : RegContactInsert(1, ok)
  \/ \E u \in Donors, ok \in BOOLEAN : handleWithdrawConsent(u, ok)
  \/ \E u \in ReaderIds, d \in Donors : GetDonorProfile(u, d)
  \/ \E u \in ReaderIds, granted \in BOOLEAN : SelectAvailableDonors(u, granted)
  \/ Deliver

SpecRead == InitAccounts /\ [][NextRead]_vars

\* ---------------- SpecCreate: case creation next to an existing case
\* the case c0 exists, owned by either patient, in any status, funded or not
OldCaseIds == {"c0"}
InitCreate ==
  /\ users = [u \in UserIds |-> UserRow(u, InitialApproval(RoleFor(u)) \/ u \in ApprovedAtStart)]
  /\ patients = Patients
  /\ donors = [u \in Donors |-> NewDonorRow]
  /\ hospitals = [u \in Hospitals |-> [approved |-> u \in ApprovedAtStart]]
  /\ sponsors = [u \in Sponsors |-> [NewSponsorRow EXCEPT !.approved = u \in ApprovedAtStart]]
  /\ \E p \in Patients, s \in Statuses, h \in {Null, "h1"}, g \in {0, MaxAmount} :
       cases = [c \in OldCaseIds |->
                  [NewCaseRow(p, "kidney", "high") EXCEPT !.status = s,
                                                          !.assigned_hospital_id = h,
                                                          !.funding_goal = g]]
  /\ case_sponsors = EmptyBag
  /\ audit_logs = EmptyBag
  /\ reqs = [r \in ReqIds |-> IdleReq]
  /\ approvals = {}
  /\ approveCalls = {[admin |-> "a1", target |-> t] : t \in ApprovedAtStart}
  /\ resp = NoResp
  /\ NoRegistrations
  /\ kv = EmptyKv

NextCreate ==
  \/ \E u \in UserIds, c \in CaseIds, o \in OrganInputs, l \in UrgencyInputs, ok \in BOOLEAN :
        CreateCase(u, c, o, l, ok)
  \/ \E c \in CaseIds \cup OldCaseIds, b \in StatusBodies, ok \in BOOLEAN :
        UpdateCase("h1", c, b, ok)
  \/ \E u \in {"p1", "p2", "h1"} : GetCases(u)
  \/ Deliver

SpecCreate == InitCreate /\ [][NextCreate]_vars

\* ------------- SpecEdgeFund: concurrent funding requests on the edge server
\* both sponsors approved, and a case of p1 with or without a funding goal
InitEdgeFund ==
  /\ users = <<>>
  /\ patients = {}
  /\ donors = <<>>
  /\ hospitals = <<>>
  /\ sponsors = <<>>
  /\ cases = <<>>
  /\ case_sponsors = EmptyBag
  /\ audit_logs = EmptyBag
  /\ reqs = [r \in ReqIds |-> EdgeIdleReq]
  /\ approvals = {}
  /\ approveCalls = {}
  /\ resp = NoResp
  /\ NoRegistrations
  /\ \E goal \in {0, MaxAmount} :
       kv = [users |-> [u \in UserIds |-> UserRow(u, TRUE)],
             hospitals |-> [u \in Hospitals |-> [approved |-> u \in ApprovedAtStart]],
             sponsors |-> [u \in Sponsors |-> NewEdgeSponsor(TRUE)],
             patients |-> [u \in Patients |-> IF u = "p1" THEN {[slot |-> "c1", uid |-> "p1"]} ELSE {}],
             donors |-> [u \in Donors |-> NewEdgeDonor],
             cases |-> [k \in {[slot |-> "c1", uid |-> "p1"]} |->
                          [NewEdgeCase(k, "p1", "kidney", "high") EXCEPT !.fundingGoal = goal]],
             audit |-> EmptyBag]

NextEdgeFund ==
  \/ \E r \in ReqIds, u \in Sponsors \cup {"p1"}, k \in EdgeCaseKeys, a \in AmountInputs :
        EdgeFundBegin(r, u, k, a)
  \/ \E r \in ReqIds : EdgeFundGet(r)
  \/ \E r \in ReqIds : EdgeFundSetCase(r)
  \/ \E r \in ReqIds : EdgeFundSetSponsor(r)
  \/ \E r \in ReqIds, ok \in BOOLEAN : EdgeFundFinish(r, ok)
  \/ Deliver

SpecEdgeFund == InitEdgeFund /\ [][NextEdgeFund]_vars

\* ------------- SpecApprove: approval with a failing role-table update
NextApprove ==
  \/ NextAuth
  \/ \E x \in approvals, ok \in BOOLEAN : ApproveUserFinishLost(x, ok)

SpecApprove == InitAuth /\ [][NextApprove]_vars

\* ------------- SpecSignUp: signup with failing inserts
NextSignUp ==
  \/ \E u \in AuthUsers, ok \in BOOLEAN : SignUp(u, ok)
  \/ \E u \in AuthUsers, userStored \in BOOLEAN, ok \in BOOLEAN : SignUpFailing(u, userStored, ok)
  \/ \E u \in AuthUsers, ok \in BOOLEAN : SignIn(u, ok)
  \/ \E u \in AuthUsers : GetCases(u)
  \/ Deliver

SpecSignUp == InitAuth /\ [][NextSignUp]_vars

\* ------------- SpecRace: two registration calls of one donor at a time
RaceRegIds == {1, 2}
\* call 1 registers a living donor with bone marrow, call 2 a deceased donor
\* with the heart
RaceKind(g) == IF g = 1 THEN "living" ELSE "deceased"
RaceOrgans(g) == IF g = 1 THEN {"bone_marrow"} ELSE {"heart"}
RaceForms(g) ==
  {x \in RegInputs : /\ validateLivingDonorData(x) /\ validateDeceasedDonorData(x)
                     /\ x.organs = RaceOrgans(g)}

InitRace ==
  /\ users = [u \in UserIds |-> UserRow(u, InitialApproval(RoleFor(u)) \/ u \in ApprovedAtStart)]
  /\ patients = Patients
  /\ donors = [u \in Donors |-> NewDonorRow]
  /\ hospitals = [u \in Hospitals |-> [approved |-> u \in ApprovedAtStart]]
  /\ sponsors = [u \in Sponsors |-> [NewSponsorRow EXCEPT !.approved = u \in ApprovedAtStart]]
  /\ cases = <<>>
  /\ case_sponsors = EmptyBag
  /\ audit_logs = EmptyBag
  /\ reqs = [r \in ReqIds |-> IdleReq]
  /\ approvals = {}
  /\ approveCalls = {[admin |-> "a1", target |-> t] : t \in ApprovedAtStart}
  /\ resp = NoResp
  /\ donor_medical_info = <<>>
  /\ donor_organs = {}
  /\ emergency_contacts = EmptyBag
  /\ regs = [g \in RaceRegIds |-> IdleReg]
  /\ kv = EmptyKv

\* every DELETE succeeds here, so that only the order of the calls' statements
\* decides the outcome
NextRace ==
  \/ \E g \in RaceRegIds, d \in Donors : \E data \in RaceForms(g) : RegBegin(g, d, RaceKind(g), data)
  \/ \E g \in RaceRegIds, ok \in BOOLEAN : RegDonorUpdate(g, ok)
  \/ \E g \in RaceRegIds, ok \in BOOLEAN : RegMedicalUpsert(g, ok)
  \/ \E g \in RaceRegIds : RegOrganDelete(g, TRUE)
  \/ \E g \in RaceRegIds, ok \in BOOLEAN : RegOrganInsert(g, ok)
  \/ \E g \in RaceRegIds, ok \in BOOLEAN : RegContactInsert(g, ok)
  \/ Deliver

SpecRace == InitRace /\ [][NextRace]_vars

\* ================================================================ claims
ActorRole(u) ==
  IF u \in DOMAIN users THEN users[u].role
  ELSE IF u \in DOMAIN kv.users THEN kv.users[u].role
  ELSE Null

\* the role table's approved flag of a hospital or sponsor
RoleFlag(u) ==
  IF users[u].role = "hospital" THEN checkApproval(u, hospitals)
  ELSE checkApproval(u, sponsors)

ApprovedByAdmin(u) ==
  \E x \in approveCalls : x.target = u /\ x.admin \in DOMAIN users /\ users[x.admin].role = "admin"

OtherPatient(p) == IF p = "p1" THEN "p2" ELSE IF p = "p2" THEN "p1" ELSE p
\* the same store with the cases owned by the other patient
SwapPatients(tbl) == [c \in DOMAIN tbl |-> [tbl[c] EXCEPT !.patient_id = OtherPatient(@)]]

\* C1: with the SQL trigger, under any interleaving of the steps of concurrent
\* fundCase requests, every case's funding_amount is non-negative and equals
\* the sum of the amounts of its case_sponsors rows (no lost update, no double
\* count).
FundingEqualsLedger ==
  \A c \in DOMAIN cases :
    /\ cases[c].funding_amount >= 0
    /\ cases[c].funding_amount = LedgerTotal(c)

\* two requests in flight at once, each with its row of amount 1 inserted, and
\* funding_amount = 2
C1Witness ==
  \E c \in DOMAIN cases :
    /\ \A r \in {1, 2} : reqs[r].pc = "reread" /\ reqs[r].case = c /\ reqs[r].amount = 1
    /\ cases[c].funding_amount = 2

\* C2: the step that inserts a contribution for case c raises funding_amount
\* by the inserted amount and, in that same step, sets status to funded when the
\* new funding_amount reaches a funding_goal > 0, and otherwise leaves the
\* status as it was.
FundedWhenGoalReached ==
  [][\A c \in DOMAIN cases :
       LedgerTotal(c)' # LedgerTotal(c) =>
         /\ cases'[c].funding_amount =
              cases[c].funding_amount + (LedgerTotal(c)' - LedgerTotal(c))
         /\ IF cases'[c].funding_amount >= cases[c].funding_goal /\ cases[c].funding_goal > 0
            THEN cases'[c].status = "funded"
            ELSE cases'[c].status = cases[c].status]_vars

\* one contribution of the whole goal has just been inserted: funded, amount = goal
C2Witness ==
  \E c \in DOMAIN cases, r \in ReqIds :
    /\ reqs[r].pc = "reread" /\ reqs[r].case = c
    /\ reqs[r].amount = cases[c].funding_goal
    /\ BagCardinality(case_sponsors) = 1
    /\ cases[c].funding_amount = cases[c].funding_goal
    /\ cases[c].status = "funded"

\* C3: a case's status never changes to a status earlier in the order
\* waiting < matched < funded < transplanted.
StatusNeverMovesBack ==
  [][\A c \in DOMAIN cases :
       StatusRank(cases'[c].status) >= StatusRank(cases[c].status)]_vars

\* C4: once a case's status is transplanted no later operation changes it.
TransplantedIsTerminal ==
  [][\A c \in DOMAIN cases :
       cases[c].status = "transplanted" => cases'[c].status = "transplanted"]_vars

\* C5: an updateCase by a hospital that is not approved, or on a case assigned
\* to another hospital, is rejected and leaves the case unchanged.
HospitalWriteGated ==
  [][\A h \in Hospitals, c \in DOMAIN cases :
       (/\ resp = NoResp /\ resp'.op = "updateCase"
        /\ resp'.actor = h /\ resp'.case = c
        /\ h \in DOMAIN users
        /\ ~HospitalsCanUpdateCases(h, cases[c]))
       => (resp'.code = 403 /\ cases'[c] = cases[c])]_vars

\* C6: an updateCase by a patient, donor or sponsor is answered 403 and changes
\* nothing: every table (the cases and the audit log among them) and the edge
\* server's key-value store are as before.
ForbiddenUpdateRejected ==
  [][(/\ resp = NoResp /\ resp'.op = "updateCase"
      /\ ActorRole(resp'.actor) \in {"patient", "donor", "sponsor"})
     => (resp'.code = 403 /\ UNCHANGED <<storeVars, kv, donorVars>>)]_vars

\* a sponsor's update of an existing case was refused
C6Witness ==
  /\ resp.op = "updateCase" /\ resp.code = 403
  /\ resp.actor \in DOMAIN users /\ users[resp.actor].role = "sponsor"
  /\ resp.case \in DOMAIN cases
  /\ audit_logs # EmptyBag

\* C7: the case list a donor gets carries no patient-identifying field: it is
\* the list the donor would get from the store with the cases owned by the
\* other patient, and no returned case names a patient's id.
DonorViewHidesPatient ==
  (/\ resp.op = "getCases" /\ resp.code = 200
   /\ resp.actor \in DOMAIN users /\ users[resp.actor].role = "donor")
  => /\ resp.body = getCasesBody(resp.actor, "donor", SwapPatients(cases))
     /\ \A v \in resp.body : v.patientId \notin Patients

\* C8: no case returned to a sponsor carries the matched donor's id.
SponsorViewHidesDonor ==
  (/\ resp.op = "getCases" /\ resp.code = 200
   /\ resp.actor \in DOMAIN users /\ users[resp.actor].role = "sponsor")
  => \A v \in resp.body : v.matchedDonorId = Null

\* C9: while the role table's approved flag of a hospital or sponsor is false,
\* its case read is answered 403 with no case data.
UnapprovedReadRejected ==
  (/\ resp.op = "getCases"
   /\ resp.actor \in DOMAIN users
   /\ users[resp.actor].role \in {"hospital", "sponsor"}
   /\ ~RoleFlag(resp.actor))
  => (resp.code = 403 /\ resp.body = {})

\* a hospital whose users.approved is already set, but whose hospitals row is
\* not yet, was refused the existing case
C9Witness ==
  /\ resp.op = "getCases" /\ resp.code = 403
  /\ resp.actor \in DOMAIN hospitals
  /\ users[resp.actor].approved /\ ~hospitals[resp.actor].approved
  /\ DOMAIN cases # {}

ConsentNeedsDonorType ==
  /\ [](\A d \in DOMAIN donors :
          donors[d].consent_given => donors[d].donor_type \in DonorTypes)
  /\ [][\A u \in Donors, t \in {Undef, Null}, ok \in BOOLEAN :
          UpdateConsent(u, t, "true", ok) => (resp'.code = 400 /\ donors' = donors)]_vars

\* a donor with no donor_type was answered 400 and has no consent
C11Witness ==
  /\ resp.op = "updateConsent" /\ resp.code = 400
  /\ resp.actor \in DOMAIN donors
  /\ donors[resp.actor].donor_type = Null
  /\ ~donors[resp.actor].consent_given

\* C12: a consenting deceased donor has a primary emergency contact with name,
\* phone and relationship, and a consenting living donor has a medical info row
\* with blood type, age in [18,100] and gender.
ConsentHasSupportingRows ==
  \A d \in DOMAIN donors :
    donors[d].consent_given =>
      /\ donors[d].donor_type = "deceased" =>
           \E x \in ContactsOf(d) :
             /\ x.is_primary
             /\ x.full_name \notin {Null, Undef}
             /\ x.phone \notin {Null, Undef}
             /\ x.relationship \notin {Null, Undef}
      /\ donors[d].donor_type = "living" =>
           /\ d \in DOMAIN donor_medical_info
           /\ donor_medical_info[d].blood_type \notin {Null, Undef}
           /\ donor_medical_info[d].age >= MinAge
           /\ donor_medical_info[d].age <= MaxAge
           /\ donor_medical_info[d].gender \notin {Null, Undef}

\* C13: a withdrawal sent by the dashboard for a donor with can_withdraw
\* succeeds and leaves consent_given false, whatever the donor's state.
WithdrawalAlwaysSucceeds ==
  [][\A u \in Donors, ok \in BOOLEAN :
       (handleWithdrawConsent(u, ok) /\ donors[u].can_withdraw)
       => (resp'.code = 200 /\ ~donors'[u].consent_given)]_vars

\* C14: a successful withdrawal through POST /donor/consent leaves
\* consent_given false and the consent date cleared, and leaves the donor's
\* medical info, organ and emergency contact rows as they were.
WithdrawalClearsDate ==
  [][\A u \in Donors, t \in ConsentTypeInputs, ok \in BOOLEAN :
       /\ (UpdateConsent(u, t, "false", ok) /\ resp'.code = 200)
          => /\ ~donors'[u].consent_given
             /\ donors'[u].consent_date = Null
             /\ UNCHANGED <<donor_medical_info, donor_organs, emergency_contacts>>
       /\ (EdgeUpdateConsent(u, t, "false", ok) /\ resp'.code = 200)
          => /\ ~kv'.donors[u].consentGiven
             /\ kv'.donors[u].consentDate = Null
             /\ UNCHANGED <<donor_medical_info, donor_organs, emergency_contacts>>]_vars

\* C15: every donor_organs row with is_living_donation has one of the organs a
\* living donor may give.
LivingOrgansRestricted ==
  \A x \in donor_organs : x.is_living_donation => x.organ_name \in LivingOrgans

\* C16: when a registration with organ selection S answers success, the donor's
\* donor_organs rows are exactly S, one row per organ.
OrganSelectionReplaces ==
  [][\A g \in RegIds, d \in Donors :
       (/\ regs[g].pc # "idle" /\ regs[g].donor = d
        /\ regs'[g].pc = "idle" /\ resp'.code = 200)
       => /\ {x.organ_name : x \in {y \in donor_organs' : y.donor_id = d}} = regs[g].organs
          /\ Cardinality({y \in donor_organs' : y.donor_id = d}) = Cardinality(regs[g].organs)]_vars

\* C17: when a registration answers failure after one of its statements failed,
\* the donor's donors row, medical info, organ rows and emergency contacts are
\* what they were when the registration was called.
RegistrationAllOrNothing ==
  [][\A g \in RegIds, d \in Donors :
       (/\ regs[g].pc # "idle" /\ regs[g].donor = d
        /\ regs'[g].pc = "idle" /\ resp'.code = 500)
       => DonorSnapshot(d)' = regs[g].before]_vars

AuditWriteFailed ==
  \E u \in Donors, t \in DonorTypes, c \in {"true", "false"} : UpdateConsent(u, t, c, FALSE)

\* C19: no step removes or changes an audit entry, and unless the audit insert
\* fails every state-changing operation that answers success (consent given or
\* withdrawn, donor registration, and the case, funding, approval and signup
\* operations) has appended an entry naming the acting user.
EveryChangeAudited ==
  [][/\ \A e \in BagToSet(audit_logs) : CopiesIn(e, audit_logs') >= CopiesIn(e, audit_logs)
     /\ (/\ resp = NoResp /\ resp'.code = 200
         /\ resp'.op \in {"updateConsent", "registerLivingDonor", "registerDeceasedDonor",
                          "createCase", "updateCase", "fundCase", "approveUser", "signUp"}
         /\ resp'.actor \in DOMAIN users)
        => \/ AuditWriteFailed
           \/ \E e \in BagToSet(audit_logs') :
                /\ e.user_id = resp'.actor
                /\ CopiesIn(e, audit_logs') = CopiesIn(e, audit_logs) + 1]_vars

\* C20: a contribution by an approved sponsor with a missing or non-positive
\* amount is answered 400, one for a case id that names no case is answered 404,
\* and neither changes a table.
BadContributionRejected ==
  [][\A r \in ReqIds, u \in Sponsors, c \in CaseIds, a \in AmountInputs :
       (FundBegin(r, u, c, a) /\ checkApproval(u, sponsors))
       => /\ a <= 0 => (resp'.code = 400 /\ UNCHANGED storeVars)
          /\ (a > 0 /\ c \notin DOMAIN cases) => (resp'.code = 404 /\ UNCHANGED storeVars)]_vars

\* C21: no updateCase request, in the Express controller or the edge handler,
\* changes the funding amount of any case.
UpdateKeepsFundingAmount ==
  [][(resp = NoResp /\ resp'.op = "updateCase")
     => /\ \A c \in DOMAIN cases : cases'[c].funding_amount = cases[c].funding_amount
        /\ \A k \in DOMAIN kv.cases :
             kv'.cases[k].fundingAmount = kv.cases[k].fundingAmount]_vars

\* C22: a read that returns a donor's medical fields (through the table's
\* policies or through the view available_donors) is made by that donor or by
\* an admin.
MedicalInfoOwnerOrAdminOnly ==
  (resp.code = 200 /\ resp.op \in {"getDonorProfile", "selectAvailableDonors"})
  => \A row \in resp.body : row.donor_id = resp.actor \/ users[resp.actor].role = "admin"

CreateCaseRejections ==
  [][\A u \in UserIds, c \in CaseIds, o \in OrganInputs, l \in UrgencyInputs, ok \in BOOLEAN :
       /\ CreateCase(u, c, o, l, ok)
          => /\ users[u].role # "patient"
                => (resp'.code = 403 /\ UNCHANGED <<cases, audit_logs>>)
             /\ (users[u].role = "patient" /\ (o = Undef \/ l = Undef))
                => (resp'.code = 400 /\ UNCHANGED <<cases, audit_logs>>)
       /\ EdgeCreateCase(u, c, o, l, ok)
          => /\ kv.users[u].role # "patient" => (resp'.code = 403 /\ UNCHANGED kv)
             /\ (kv.users[u].role = "patient" /\ (o = Undef \/ l = Undef))
                => (resp'.code = 400 /\ UNCHANGED kv)]_vars

\* a patient's request without a required field was answered 400 and no case exists
C24Witness ==
  /\ resp.op = "createCase" /\ resp.code = 400
  /\ ActorRole(resp.actor) = "patient"
  /\ cases = <<>> /\ kv.cases = <<>>
  /\ audit_logs = EmptyBag /\ kv.audit = EmptyBag

\* the CASE_FUNDED audit entries of a case: the contributions answered 200
EdgeFunded(key) == {e \in BagToSet(kv.audit) : e.action = "CASE_FUNDED" /\ e.caseId = key}

\* C25: on the edge server, however the steps of concurrent funding requests
\* were interleaved, once none is in progress every contribution answered 200
\* is reflected: the fundingAmount of a case (0 at the start) is not below the
\* sum of their amounts and its sponsors list has an entry for each of them.
EdgeFundingReflectsAll ==
  (\A r \in ReqIds : reqs[r].pc = "idle")
  => \A k \in DOMAIN kv.cases :
       /\ kv.cases[k].fundingAmount >= SumAmounts(EdgeFunded(k), kv.audit)
       /\ Len(kv.cases[k].sponsors) >= BagCardinality(kv.audit)

\* a body that sets status funded and nothing else
FundedBody == [status |-> "funded", assignedHospitalId |-> Undef,
               matchedDonorId |-> Undef, fundingGoal |-> UndefNum]

\* C26: an updateCase by a hospital or an admin that sets status funded is
\* answered 200 and stores status funded whatever the case's funding amount
\* and goal are, and leaves both as they were.
FundedSettableWithoutFunding ==
  [][\A u \in Hospitals \cup Admins, c \in DOMAIN cases, ok \in BOOLEAN :
       UpdateCase(u, c, FundedBody, ok)
       => /\ resp'.code = 200
          /\ cases'[c].status = "funded"
          /\ cases'[c].funding_amount = cases[c].funding_amount
          /\ cases'[c].funding_goal = cases[c].funding_goal]_vars

\* an update was answered 200 and left a case funded with its amount below its goal
C26Witness ==
  /\ resp.op = "updateCase" /\ resp.code = 200
  /\ resp.case \in DOMAIN cases
  /\ cases[resp.case].status = "funded"
  /\ cases[resp.case].funding_amount < cases[resp.case].funding_goal

\* C27: for every hospital or sponsor with no approveUser call in progress,
\* users.approved equals the approved flag of its hospitals / sponsors row.
ApprovalFlagsAgree ==
  \A u \in DOMAIN users :
    (/\ users[u].role \in {"hospital", "sponsor"}
     /\ \A x \in approvals : x.target # u)
    => (users[u].approved <=> RoleFlag(u))

\* the rows of the role table of u's role that belong to u
ProfileRows(u) ==
  CASE users[u].role = "patient" -> {u} \cap patients
    [] users[u].role = "donor" -> {u} \cap DOMAIN donors
    [] users[u].role = "hospital" -> {u} \cap DOMAIN hospitals
    [] users[u].role = "sponsor" -> {u} \cap DOMAIN sponsors
    [] OTHER -> {u}

\* C28: every users row of a patient, donor, hospital or sponsor has exactly
\* one row in its role table, and a signUp that does not answer 200 leaves no
\* users row and no role table row behind.
ProfileOneToOne ==
  /\ [](\A u \in DOMAIN users : Cardinality(ProfileRows(u)) = 1)
  /\ [][(resp = NoResp /\ resp'.op = "signUp" /\ resp'.code # 200)
        => UNCHANGED <<users, patients, donors, hospitals, sponsors>>]_vars

\* the organ rows call g inserts for donor d
RaceSelection(g, d) ==
  organInserts([donor |-> d, kind |-> RaceKind(g), organs |-> RaceOrgans(g)])

\* C29: when the registration calls of a donor have ended, however their
\* statements were interleaved, the donor's organ rows are the selection of one
\* of the calls (or none, when no call got as far as its insert), never rows
\* of both.
RaceLeavesOneSelection ==
  (\A g \in RaceRegIds : regs[g].pc = "idle")
  => \A d \in DOMAIN donors :
       OrgansOf(d) \in {{}} \cup {RaceSelection(g, d) : g \in RaceRegIds}

\* C30: the matched donor of a case, when set, is a user with role donor whose
\* donors row has consent_given true.
MatchedDonorConsents ==
  \A c \in DOMAIN cases :
    cases[c].matched_donor_id # Null
    => /\ cases[c].matched_donor_id \in DOMAIN users
       /\ users[cases[c].matched_donor_id].role = "donor"
       /\ cases[c].matched_donor_id \in DOMAIN donors
       /\ donors[cases[c].matched_donor_id].consent_given

====
